---------------------------- MODULE Spec2Model ----------------------------
(***************************************************************************)
(* Model of the BlueNRG HCI transport layer, SimpleBlueNRG_HCI/hci.c:     *)
(* the pool of read packets, the receive queue, the reader thread woken   *)
(* by HCI_Isr through a condition variable, HCI_Process (the event        *)
(* drain) and hci_send_req (the synchronous request engine).              *)
(*                                                                         *)
(* Threads interleave at the granularity of one list operation or one     *)
(* call to the platform (SPI read, IRQ mask, cond_signal).  The lists are *)
(* sequences of buffer indices into hciReadPacketBuffer; the contents of  *)
(* a buffer are forgotten when it goes back to the pool.  A packet        *)
(* shorter than the fields hci_send_req reads leaves bytes of an earlier  *)
(* packet in those fields: such a packet carries them as its own fields.  *)
(***************************************************************************)
EXTENDS Integers, Sequences, FiniteSets, TLC

VARIABLES
    thread_pid,     \* -1 until HCI_Init created the reader thread
    nReaders,       \* number of reader threads ever created
    hciReadPktPool,     \* free packets, head first
    hciReadPktRxQueue,  \* verified, unconsumed packets, head first
    dataBuff,       \* hciReadPacketBuffer[i]: the packet held, or NoData
    hwq,            \* packets readable on the device side, oldest first
    nArrived,       \* packets the device has made readable so far
    irqPending,     \* the SPI IRQ line rose and its ISR has not run yet
    irqMasked,      \* Disable_SPI_IRQ() in effect
    rpc,            \* reader thread: program counter
    rpkt,           \* reader thread: hciReadPacket (0 = none held)
    pc,             \* caller: program counter
    req,            \* caller: the hci_request being served
    pkt,            \* caller: hciReadPacket local (0 = NULL)
    hciTempQueue,   \* caller: packets set aside by hci_send_req
    hci_timeout,    \* caller: the request's timer has expired
    result,         \* caller: what hci_send_req returned (1: nothing yet)
    polled,         \* caller: Timer_Expired() was false in this poll iteration
    listFault,      \* a list was corrupted: a removal from an empty list, or
                    \* a node linked while it is still linked elsewhere
    aside,          \* history: the packets this request put in hciTempQueue
    nEvicted,       \* history: packets free_event_list evicted in this call
    exitBy,         \* history: what ended the request: 0 nothing yet,
                    \* -1 the timer, else the event code of the last packet
    arrival         \* buffers holding a live packet, in order of arrival

vars == << thread_pid, nReaders, hciReadPktPool, hciReadPktRxQueue, dataBuff,
           hwq, nArrived, irqPending, irqMasked, rpc, rpkt, pc, req, pkt,
           hciTempQueue, hci_timeout, result, polled, listFault, aside, nEvicted,
           exitBy, arrival >>

-----------------------------------------------------------------------------
(* Program constants *)

HCI_READ_PACKET_NUM_MAX == 5
HCI_EVENT_PKT == 4
HCI_EVENT_HDR_SIZE == 2
EVT_CMD_COMPLETE == 14
EVT_CMD_STATUS == 15
EVT_HARDWARE_ERROR == 16
EVT_LE_META_EVENT == 62
EVT_CMD_COMPLETE_SIZE == 3

(* Bounds of the model *)

MaxHw == 1          \* packets the device holds readable at once
MaxArrivals == 5    \* packets the device sends in one run

Buffers == 1..HCI_READ_PACKET_NUM_MAX
NoData == [type |-> 0, evt |-> 0, plen |-> 0, dlen |-> 0,
           opcode |-> 0, status |-> 0, sub |-> 0]

(* The contexts that run driver calls: the main thread and one other.     *)
(* Only "main" runs unless a specification says otherwise.                 *)
Contexts == {"main", "other"}
Callers == {"main"}

ReqOpcode == 1      \* cmd_opcode_pack(r->ogf, r->ocf) of the pending request
OtherOpcode == 2    \* any other opcode
SubEvent == 1       \* the LE meta sub-event a request may await
OtherSubEvent == 2  \* another LE meta sub-event
EVT_OTHER == 5      \* an event code hci_send_req has no case for

(* A packet as BlueNRG_SPI_Read_All leaves it in dataBuff: byte 0 the type,  *)
(* byte 1 the event code, byte 2 the declared parameter length, then the     *)
(* parameters; dlen is the number of bytes read.                             *)
Pkt(t, e, pl, dl, op, st, su) ==
    [type |-> t, evt |-> e, plen |-> pl, dlen |-> dl,
     opcode |-> op, status |-> st, sub |-> su]

PktCmdStatusOk  == Pkt(HCI_EVENT_PKT, EVT_CMD_STATUS, 4, 7, ReqOpcode, 0, 0)
PktCmdStatusErr == Pkt(HCI_EVENT_PKT, EVT_CMD_STATUS, 4, 7, ReqOpcode, 1, 0)
PktCmdStatusOther == Pkt(HCI_EVENT_PKT, EVT_CMD_STATUS, 4, 7, OtherOpcode, 0, 0)
PktCmdComplete  == Pkt(HCI_EVENT_PKT, EVT_CMD_COMPLETE, 4, 7, ReqOpcode, 0, 0)
PktCmdCompleteOther == Pkt(HCI_EVENT_PKT, EVT_CMD_COMPLETE, 4, 7, OtherOpcode, 0, 0)
PktMeta         == Pkt(HCI_EVENT_PKT, EVT_LE_META_EVENT, 2, 5, 0, 0, SubEvent)
PktMetaOther    == Pkt(HCI_EVENT_PKT, EVT_LE_META_EVENT, 2, 5, 0, 0, OtherSubEvent)
PktHwError      == Pkt(HCI_EVENT_PKT, EVT_HARDWARE_ERROR, 1, 4, 0, 0, 0)
PktOther        == Pkt(HCI_EVENT_PKT, EVT_OTHER, 1, 4, 0, 0, 0)
PktBadLen       == Pkt(HCI_EVENT_PKT, EVT_OTHER, 1, 6, 0, 0, 0)
PktBadType      == Pkt(2, EVT_OTHER, 1, 4, 0, 0, 0)

(* A Command Complete event with four bytes after its fixed header, and    *)
(* events shorter than what hci_send_req reads of them: a Command Complete *)
(* with two parameter bytes and an LE meta event with none.  The opcode    *)
(* and the sub-event the code reads there lie past the bytes received, in  *)
(* what an earlier packet left in the buffer; here they match the request. *)
PktCmdCompleteLong  == Pkt(HCI_EVENT_PKT, EVT_CMD_COMPLETE, 7, 10, ReqOpcode, 0, 0)
PktCmdCompleteShort == Pkt(HCI_EVENT_PKT, EVT_CMD_COMPLETE, 2, 5, ReqOpcode, 0, 0)
PktMetaEmpty        == Pkt(HCI_EVENT_PKT, EVT_LE_META_EVENT, 0, 3, 0, 0, SubEvent)

(* What the device may send, and what a caller may ask for. *)
DevicePackets == { PktCmdComplete, PktMetaOther, PktBadLen }
(* A request is r->event, the async flag and r->rlen, which is the capacity *)
(* of r->rparam at the call and the response length at a successful       *)
(* return; cap keeps the capacity the caller passed in.                    *)
Requests == [event : {EVT_CMD_COMPLETE}, async : BOOLEAN, rlen : {2}, cap : {2}]
NoReq == [event |-> 0, async |-> FALSE, rlen |-> 0, cap |-> 0]

-----------------------------------------------------------------------------
(* ble_list.h: the intrusive lists, as sequences of buffer indices. *)

ble_list_is_empty(list) == list = << >>
ble_list_get_size(list) == Len(list)
ble_list_insert_head(list, node) == << node >> \o list
ble_list_insert_tail(list, node) == Append(list, node)
ble_list_rest_head(list) == Tail(list)
ble_list_rest_tail(list) == SubSeq(list, 1, Len(list) - 1)

Range(s) == { s[i] : i \in 1..Len(s) }
Without(s, b) == SelectSeq(s, LAMBDA x : x # b)

-----------------------------------------------------------------------------
(* The state before HCI_Init: the statics of hci.c. *)

Init ==
    /\ thread_pid = -1
    /\ nReaders = 0
    /\ hciReadPktPool = << >>
    /\ hciReadPktRxQueue = << >>
    /\ dataBuff = [b \in Buffers |-> NoData]
    /\ hwq = << >>
    /\ nArrived = 0
    /\ irqPending = FALSE
    /\ irqMasked = FALSE
    /\ rpc = "none"
    /\ rpkt = 0
    /\ pc = [c \in Contexts |-> "idle"]
    /\ req = [c \in Contexts |-> NoReq]
    /\ pkt = [c \in Contexts |-> 0]
    /\ hciTempQueue = [c \in Contexts |-> << >>]
    /\ hci_timeout = [c \in Contexts |-> FALSE]
    /\ result = [c \in Contexts |-> 1]
    /\ polled = [c \in Contexts |-> FALSE]
    /\ listFault = FALSE
    /\ aside = [c \in Contexts |-> << >>]
    /\ nEvicted = [c \in Contexts |-> 0]
    /\ exitBy = [c \in Contexts |-> 0]
    /\ arrival = << >>

callerVars == << pc, req, pkt, hciTempQueue, hci_timeout, result, polled,
                aside, nEvicted, exitBy >>
readerVars == << rpc, rpkt >>
listVars == << hciReadPktPool, hciReadPktRxQueue, dataBuff, arrival >>
hwVars == << hwq, nArrived, irqPending >>

Initialized == thread_pid # -1

(* A node that is already linked in the pool or the receive queue: linking *)
(* it again corrupts both lists, and the model stops there (listFault).    *)
Linked(b) == b \in Range(hciReadPktPool) \cup Range(hciReadPktRxQueue)

-----------------------------------------------------------------------------
(* HCI_verify: 0 if the packet is an event whose declared parameter length *)
(* is the number of bytes read less the type byte and the event header.    *)
(* HCI_verify without the length test.                                     *)
HCI_verify_TypeOnly(p) ==
    IF p.type # HCI_EVENT_PKT THEN 1
    ELSE 0

HCI_verify(p) ==
    IF p.type # HCI_EVENT_PKT THEN 1
    ELSE IF p.plen # p.dlen - (1 + HCI_EVENT_HDR_SIZE) THEN 2
    ELSE 0

(* HCI_Isr: cond_signal wakes the reader if it is blocked in cond_wait and *)
(* is forgotten otherwise (a condition variable has no memory).            *)
HCI_Isr(r) == IF r = "wait" THEN "check" ELSE r

-----------------------------------------------------------------------------
(* The device and its interrupt line. *)

(* The device makes one more packet readable; the line rises when it had   *)
(* nothing readable before.                                                *)
HwArrive(p) ==
    /\ ~listFault
    /\ Len(hwq) < MaxHw
    /\ nArrived < MaxArrivals
    /\ nArrived' = nArrived + 1
    /\ hwq' = Append(hwq, p)
    /\ irqPending' = (irqPending \/ hwq = << >>)
    /\ UNCHANGED << thread_pid, nReaders, listVars, irqMasked, readerVars,
                    callerVars, listFault >>

(* The SPI interrupt handler runs HCI_Isr, unless the IRQ is disabled. *)
HwIsr ==
    /\ ~listFault
    /\ irqPending
    /\ ~irqMasked
    /\ irqPending' = FALSE
    /\ rpc' = HCI_Isr(rpc)
    /\ UNCHANGED << thread_pid, nReaders, listVars, hwq, nArrived, irqMasked,
                    rpkt, callerVars, listFault >>

-----------------------------------------------------------------------------
(* HCI_Reader_Thread *)

(* mutex_lock; cond_wait: block until signalled. *)
ReaderWait ==
    /\ ~listFault
    /\ rpc = "lock"
    /\ rpc' = "wait"
    /\ UNCHANGED << thread_pid, nReaders, listVars, hwVars, irqMasked, rpkt,
                    callerVars, listFault >>

(* while(BlueNRG_DataPresent()) ... mutex_unlock *)
ReaderDataPresent ==
    /\ ~listFault
    /\ rpc = "check"
    /\ rpc' = IF hwq # << >> THEN "acquire" ELSE "lock"
    /\ UNCHANGED << thread_pid, nReaders, listVars, hwVars, irqMasked, rpkt,
                    callerVars, listFault >>

(* Take a packet from the pool, or leave the loop if there is none. *)
ReaderAcquire ==
    /\ ~listFault
    /\ rpc = "acquire"
    /\ IF ~ble_list_is_empty(hciReadPktPool)
         THEN /\ rpkt' = Head(hciReadPktPool)
              /\ hciReadPktPool' = ble_list_rest_head(hciReadPktPool)
              /\ rpc' = "read"
         ELSE /\ rpc' = "lock"
              /\ UNCHANGED << rpkt, hciReadPktPool >>
    /\ UNCHANGED << thread_pid, nReaders, hciReadPktRxQueue, dataBuff, arrival,
                    hwVars, irqMasked, callerVars, listFault >>

(* data_len = BlueNRG_SPI_Read_All(...): the oldest readable packet, or    *)
(* zero bytes.  A verified packet goes to the tail of the receive queue;   *)
(* after a zero read or a failed HCI_verify the buffer goes back to the    *)
(* head of the pool.                                                       *)
ReaderRead ==
    /\ ~listFault
    /\ rpc = "read"
    /\ \E data_len \in {0} \cup (IF hwq # << >> THEN {Head(hwq).dlen} ELSE {}) :
         /\ hwq' = IF data_len > 0 THEN Tail(hwq) ELSE hwq
         /\ IF data_len > 0 /\ HCI_verify(Head(hwq)) = 0
              THEN /\ dataBuff' = [dataBuff EXCEPT ![rpkt] = Head(hwq)]
                   /\ hciReadPktRxQueue' =
                          ble_list_insert_tail(hciReadPktRxQueue, rpkt)
                   /\ arrival' = Append(arrival, rpkt)
                   /\ UNCHANGED hciReadPktPool
              ELSE /\ hciReadPktPool' = ble_list_insert_head(hciReadPktPool, rpkt)
                   /\ dataBuff' = [dataBuff EXCEPT ![rpkt] = NoData]
                   /\ UNCHANGED << hciReadPktRxQueue, arrival >>
    /\ listFault' = Linked(rpkt)
    /\ rpkt' = 0
    /\ rpc' = "check"
    /\ UNCHANGED << thread_pid, nReaders, nArrived, irqPending, irqMasked,
                    callerVars >>

Reader == ReaderWait \/ ReaderDataPresent \/ ReaderAcquire \/ ReaderRead

-----------------------------------------------------------------------------
(* Buffers some thread holds outside the pool and the receive queue. *)
Held == ({rpkt} \cup { pkt[c] : c \in Contexts }
          \cup UNION { Range(hciTempQueue[c]) : c \in Contexts }) \ {0}

(* HCI_Init: reset both list heads, put every buffer of                    *)
(* hciReadPacketBuffer in the pool, create the reader thread once.         *)
HCI_Init(c) ==
    /\ ~listFault
    /\ pc[c] = "idle"
    /\ hciReadPktPool' = [i \in 1..HCI_READ_PACKET_NUM_MAX |-> i]
    /\ hciReadPktRxQueue' = << >>
    /\ dataBuff' = [b \in Buffers |-> IF b \in Held THEN dataBuff[b] ELSE NoData]
    /\ arrival' = SelectSeq(arrival, LAMBDA b : b \in Held)
    /\ IF thread_pid = -1
         THEN /\ thread_pid' = 1
              /\ nReaders' = nReaders + 1
              /\ rpc' = "lock"
         ELSE UNCHANGED << thread_pid, nReaders, rpc >>
    /\ result' = [result EXCEPT ![c] = 1]
    /\ UNCHANGED << hwVars, irqMasked, rpkt, pc, req, pkt, hciTempQueue,
                    hci_timeout, polled, listFault,
                    aside, nEvicted, exitBy >>

-----------------------------------------------------------------------------
(* HCI_Process: the event drain *)

(* Disable_SPI_IRQ; list_empty = ble_list_is_empty(&hciReadPktRxQueue) *)
HCI_Process(c) ==
    /\ ~listFault
    /\ pc[c] = "idle"
    /\ Initialized
    /\ irqMasked' = TRUE
    /\ pc' = [pc EXCEPT ![c] = IF ble_list_is_empty(hciReadPktRxQueue)
                                THEN "hp_isr" ELSE "hp_remove"]
    /\ result' = [result EXCEPT ![c] = 1]
    /\ UNCHANGED << thread_pid, nReaders, listVars, hwVars, readerVars, req, pkt,
                    hciTempQueue, hci_timeout, polled, listFault,
                    aside, nEvicted, exitBy >>

(* ProcessRemove taking the newest queued packet, not the oldest. *)
ProcessRemove_Tail(c) ==
    /\ ~listFault
    /\ pc[c] = "hp_remove"
    /\ IF ble_list_is_empty(hciReadPktRxQueue)
         THEN /\ listFault' = TRUE
              /\ pc' = [pc EXCEPT ![c] = "fault"]
              /\ UNCHANGED << pkt, hciReadPktRxQueue >>
         ELSE /\ pkt' = [pkt EXCEPT ![c] =
                            hciReadPktRxQueue[Len(hciReadPktRxQueue)]]
              /\ hciReadPktRxQueue' = ble_list_rest_tail(hciReadPktRxQueue)
              /\ pc' = [pc EXCEPT ![c] = "hp_cb"]
              /\ UNCHANGED listFault
    /\ irqMasked' = FALSE
    /\ UNCHANGED << thread_pid, nReaders, hciReadPktPool, dataBuff, arrival,
                    hwVars, readerVars, req, hciTempQueue, hci_timeout, result,
                    polled,
                    aside, nEvicted, exitBy >>

(* ble_list_remove_head(&hciReadPktRxQueue, &hciReadPacket); Enable_SPI_IRQ *)
ProcessRemove(c) ==
    /\ ~listFault
    /\ pc[c] = "hp_remove"
    /\ IF ble_list_is_empty(hciReadPktRxQueue)
         THEN /\ listFault' = TRUE
              /\ pc' = [pc EXCEPT ![c] = "fault"]
              /\ UNCHANGED << pkt, hciReadPktRxQueue >>
         ELSE /\ pkt' = [pkt EXCEPT ![c] = Head(hciReadPktRxQueue)]
              /\ hciReadPktRxQueue' = ble_list_rest_head(hciReadPktRxQueue)
              /\ pc' = [pc EXCEPT ![c] = "hp_cb"]
              /\ UNCHANGED listFault
    /\ irqMasked' = FALSE
    /\ UNCHANGED << thread_pid, nReaders, hciReadPktPool, dataBuff, arrival,
                    hwVars, readerVars, req, hciTempQueue, hci_timeout, result,
                    polled,
                    aside, nEvicted, exitBy >>

(* HCI_Event_CB(hciReadPacket->dataBuff): the consumer runs unmasked. *)
ProcessCallback(c) ==
    /\ ~listFault
    /\ pc[c] = "hp_cb"
    /\ pc' = [pc EXCEPT ![c] = "hp_put"]
    /\ UNCHANGED << thread_pid, nReaders, listVars, hwVars, irqMasked, readerVars,
                    req, pkt, hciTempQueue, hci_timeout, result, polled, listFault,
                    aside, nEvicted, exitBy >>

(* Disable_SPI_IRQ; ble_list_insert_tail(&hciReadPktPool, hciReadPacket);  *)
(* list_empty = ble_list_is_empty(&hciReadPktRxQueue)                      *)
ProcessRelease(c) ==
    /\ ~listFault
    /\ pc[c] = "hp_put"
    /\ irqMasked' = TRUE
    /\ hciReadPktPool' = ble_list_insert_tail(hciReadPktPool, pkt[c])
    /\ dataBuff' = [dataBuff EXCEPT ![pkt[c]] = NoData]
    /\ arrival' = Without(arrival, pkt[c])
    /\ pkt' = [pkt EXCEPT ![c] = 0]
    /\ pc' = [pc EXCEPT ![c] = IF ble_list_is_empty(hciReadPktRxQueue)
                                THEN "hp_isr" ELSE "hp_remove"]
    /\ UNCHANGED << thread_pid, nReaders, hciReadPktRxQueue, hwVars, readerVars,
                    req, hciTempQueue, hci_timeout, result, polled, listFault,
                    aside, nEvicted, exitBy >>

(* HCI_Isr(); Enable_SPI_IRQ(); return *)
ProcessIsr(c) ==
    /\ ~listFault
    /\ pc[c] = "hp_isr"
    /\ rpc' = HCI_Isr(rpc)
    /\ irqMasked' = FALSE
    /\ pc' = [pc EXCEPT ![c] = "idle"]
    /\ UNCHANGED << thread_pid, nReaders, listVars, hwVars, rpkt, req, pkt,
                    hciTempQueue, hci_timeout, result, polled, listFault,
                    aside, nEvicted, exitBy >>

-----------------------------------------------------------------------------
(* hci_send_req *)

(* move_list with the wrong end of src taken: the head, not the tail. *)
move_list_head(dest, src) ==
    << ble_list_insert_head(dest, Head(src)), ble_list_rest_head(src) >>

(* One turn of move_list's loop: the tail of src goes to the head of dest. *)
move_list(dest, src) ==
    << ble_list_insert_head(dest, src[Len(src)]), ble_list_rest_tail(src) >>

(* Classify without the EVT_HARDWARE_ERROR case: the event falls to default. *)
Classify_NoHwCase(p, r) ==
    IF p.type # HCI_EVENT_PKT THEN "aside"
    ELSE CASE p.evt = EVT_CMD_STATUS ->
                IF p.opcode # ReqOpcode THEN "failed"
                ELSE IF r.event # EVT_CMD_STATUS
                     THEN (IF p.status # 0 THEN "failed" ELSE "aside")
                     ELSE "done"
           [] p.evt = EVT_CMD_COMPLETE ->
                IF p.opcode # ReqOpcode THEN "failed" ELSE "done"
           [] p.evt = EVT_LE_META_EVENT ->
                IF p.sub # r.event THEN "aside" ELSE "done"
           [] OTHER -> "aside"

(* Classify with the status of a Command Status event not looked at when   *)
(* another event is awaited: the event is set aside whatever its status.   *)
Classify_StatusIgnored(p, r) ==
    IF p.type # HCI_EVENT_PKT THEN "aside"
    ELSE CASE p.evt = EVT_CMD_STATUS ->
                IF p.opcode # ReqOpcode THEN "failed"
                ELSE IF r.event # EVT_CMD_STATUS THEN "aside" ELSE "done"
           [] p.evt = EVT_CMD_COMPLETE ->
                IF p.opcode # ReqOpcode THEN "failed" ELSE "done"
           [] p.evt = EVT_LE_META_EVENT ->
                IF p.sub # r.event THEN "aside" ELSE "done"
           [] p.evt = EVT_HARDWARE_ERROR -> "failed"
           [] OTHER -> "aside"

(* The switch of hci_send_req on the packet just dequeued, for request r:  *)
(* "done", "failed", or "aside" where the code breaks out of the switch.   *)
Classify(p, r) ==
    IF p.type # HCI_EVENT_PKT THEN "aside"
    ELSE CASE p.evt = EVT_CMD_STATUS ->
                IF p.opcode # ReqOpcode THEN "failed"
                ELSE IF r.event # EVT_CMD_STATUS
                     THEN (IF p.status # 0 THEN "failed" ELSE "aside")
                     ELSE "done"
           [] p.evt = EVT_CMD_COMPLETE ->
                IF p.opcode # ReqOpcode THEN "failed" ELSE "done"
           [] p.evt = EVT_LE_META_EVENT ->
                IF p.sub # r.event THEN "aside" ELSE "done"
           [] p.evt = EVT_HARDWARE_ERROR -> "failed"
           [] OTHER -> "aside"

(* #define MIN(a,b) ((a) < (b) )? (a) : (b), as it expands in              *)
(* r->rlen = MIN(len, r->rlen): the conditional binds tighter than the     *)
(* assignment; len and r->rlen are int.                                    *)
MIN(a, b) == IF a < b THEN a ELSE b

(* len where hci_send_req copies the response of packet p: data_len less   *)
(* the type byte and the event header, less EVT_CMD_COMPLETE_SIZE for       *)
(* Command Complete, less the sub-event byte for an LE meta event.         *)
ResponseLen(p) ==
    LET len == p.dlen - (1 + HCI_EVENT_HDR_SIZE)
    IN  CASE p.evt = EVT_CMD_COMPLETE -> len - EVT_CMD_COMPLETE_SIZE
          [] p.evt = EVT_LE_META_EVENT -> len - 1
          [] OTHER -> len

(* The size Osal_MemCpy is passed for r->rlen: the int converted to a      *)
(* 32-bit unsigned int, given as its high and low 16-bit halves.           *)
CopySize(n) == [hi |-> (n \div 65536) % 65536, lo |-> n % 65536]

(* The loop test with the bound one too low. *)
PoolLow_OneLess ==
    ble_list_get_size(hciReadPktPool) < HCI_READ_PACKET_NUM_MAX \div 2 - 1

(* The loop test of free_event_list. *)
PoolLow == ble_list_get_size(hciReadPktPool) < HCI_READ_PACKET_NUM_MAX \div 2

(* hci_send_req(r, async): ble_list_init_head(&hciTempQueue), then         *)
(* free_event_list begins with Disable_SPI_IRQ.                            *)
SendReq(c, r) ==
    /\ ~listFault
    /\ pc[c] = "idle"
    /\ Initialized
    /\ req' = [req EXCEPT ![c] = r]
    /\ hciTempQueue' = [hciTempQueue EXCEPT ![c] = << >>]
    /\ pkt' = [pkt EXCEPT ![c] = 0]
    /\ result' = [result EXCEPT ![c] = 1]
    /\ hci_timeout' = [hci_timeout EXCEPT ![c] = FALSE]
    /\ irqMasked' = TRUE
    /\ pc' = [pc EXCEPT ![c] = "fel_test"]
    /\ UNCHANGED << thread_pid, nReaders, listVars, hwVars, readerVars, polled,
                    listFault >>
    /\ aside' = [aside EXCEPT ![c] = << >>]
    /\ nEvicted' = [nEvicted EXCEPT ![c] = 0]
    /\ exitBy' = [exitBy EXCEPT ![c] = 0]

(* free_event_list: while the pool holds fewer than half the packets,      *)
(* remove the head of the receive queue; Enable_SPI_IRQ after the loop.    *)
FreeEventTest(c) ==
    /\ ~listFault
    /\ pc[c] = "fel_test"
    /\ IF PoolLow
         THEN /\ IF ble_list_is_empty(hciReadPktRxQueue)
                    THEN /\ listFault' = TRUE
                         /\ pc' = [pc EXCEPT ![c] = "fault"]
                         /\ UNCHANGED << pkt, hciReadPktRxQueue >>
                    ELSE /\ pkt' = [pkt EXCEPT ![c] = Head(hciReadPktRxQueue)]
                         /\ hciReadPktRxQueue' = ble_list_rest_head(hciReadPktRxQueue)
                         /\ pc' = [pc EXCEPT ![c] = "fel_put"]
                         /\ UNCHANGED listFault
              /\ UNCHANGED irqMasked
         ELSE /\ irqMasked' = FALSE
              /\ pc' = [pc EXCEPT ![c] = "send_cmd"]
              /\ UNCHANGED << pkt, hciReadPktRxQueue, listFault >>
    /\ UNCHANGED << thread_pid, nReaders, hciReadPktPool, dataBuff, arrival,
                    hwVars, readerVars, req, hciTempQueue, hci_timeout, result,
                    polled,
                    aside, nEvicted, exitBy >>

(* FreeEventPut without the insertion: the evicted packet is forgotten. *)
FreeEventPut_Leak(c) ==
    /\ ~listFault
    /\ pc[c] = "fel_put"
    /\ dataBuff' = [dataBuff EXCEPT ![pkt[c]] = NoData]
    /\ arrival' = Without(arrival, pkt[c])
    /\ pkt' = [pkt EXCEPT ![c] = 0]
    /\ rpc' = HCI_Isr(rpc)
    /\ pc' = [pc EXCEPT ![c] = "fel_test"]
    /\ UNCHANGED << thread_pid, nReaders, hciReadPktPool, hciReadPktRxQueue,
                    hwVars, irqMasked,
                    rpkt, req, hciTempQueue, hci_timeout, result, polled,
                    listFault,
                    aside, exitBy >>
    /\ nEvicted' = [nEvicted EXCEPT ![c] =
                       IF @ < HCI_READ_PACKET_NUM_MAX THEN @ + 1 ELSE @]

(* ble_list_insert_tail(&hciReadPktPool, pckt); HCI_Isr() *)
FreeEventPut(c) ==
    /\ ~listFault
    /\ pc[c] = "fel_put"
    /\ hciReadPktPool' = ble_list_insert_tail(hciReadPktPool, pkt[c])
    /\ dataBuff' = [dataBuff EXCEPT ![pkt[c]] = NoData]
    /\ arrival' = Without(arrival, pkt[c])
    /\ pkt' = [pkt EXCEPT ![c] = 0]
    /\ rpc' = HCI_Isr(rpc)
    /\ pc' = [pc EXCEPT ![c] = "fel_test"]
    /\ UNCHANGED << thread_pid, nReaders, hciReadPktRxQueue, hwVars, irqMasked,
                    rpkt, req, hciTempQueue, hci_timeout, result, polled,
                    listFault,
                    aside, exitBy >>
    /\ nEvicted' = [nEvicted EXCEPT ![c] =
                       IF @ < HCI_READ_PACKET_NUM_MAX THEN @ + 1 ELSE @]

(* hci_send_cmd; return 0 if async, else Timer_Set(&t, to). *)
SendCmd(c) ==
    /\ ~listFault
    /\ pc[c] = "send_cmd"
    /\ IF req[c].async
         THEN /\ pc' = [pc EXCEPT ![c] = "idle"]
              /\ result' = [result EXCEPT ![c] = 0]
              /\ req' = [req EXCEPT ![c] = NoReq]
         ELSE /\ pc' = [pc EXCEPT ![c] = "poll_timer"]
              /\ UNCHANGED << result, req >>
    /\ hci_timeout' = [hci_timeout EXCEPT ![c] = FALSE]
    /\ UNCHANGED << thread_pid, nReaders, listVars, hwVars, irqMasked, readerVars,
                    pkt, hciTempQueue, polled, listFault,
                    aside, exitBy >>
    /\ nEvicted' = [nEvicted EXCEPT ![c] = 0]

(* The request's timer runs out (gp_timer). *)
TimerExpire(c) ==
    /\ ~listFault
    /\ pc[c] \in {"poll_timer", "poll_queue", "dequeue", "aside"}
    /\ ~hci_timeout[c]
    /\ hci_timeout' = [hci_timeout EXCEPT ![c] = TRUE]
    /\ UNCHANGED << thread_pid, nReaders, listVars, hwVars, irqMasked, readerVars,
                    pc, req, pkt, hciTempQueue, result, polled, listFault,
                    aside, nEvicted, exitBy >>

(* The poll with the queue looked at first: the deadline only counts while *)
(* the receive queue is empty.                                             *)
PollTimer_QueueFirst(c) ==
    /\ ~listFault
    /\ pc[c] = "poll_timer"
    /\ IF hci_timeout[c] /\ ble_list_is_empty(hciReadPktRxQueue)
         THEN /\ pc' = [pc EXCEPT ![c] = "failed"]
              /\ polled' = [polled EXCEPT ![c] = FALSE]
         ELSE /\ pc' = [pc EXCEPT ![c] = "poll_queue"]
              /\ polled' = [polled EXCEPT ![c] = TRUE]
    /\ UNCHANGED << thread_pid, nReaders, listVars, hwVars, irqMasked, readerVars,
                    req, pkt, hciTempQueue, hci_timeout, result, listFault,
                    aside, nEvicted >>
    /\ exitBy' = [exitBy EXCEPT ![c] = IF hci_timeout[c] /\ ble_list_is_empty(hciReadPktRxQueue)
                                  THEN -1 ELSE 0]

(* if(Timer_Expired(&t)) goto failed; *)
PollTimer(c) ==
    /\ ~listFault
    /\ pc[c] = "poll_timer"
    /\ IF hci_timeout[c]
         THEN /\ pc' = [pc EXCEPT ![c] = "failed"]
              /\ polled' = [polled EXCEPT ![c] = FALSE]
         ELSE /\ pc' = [pc EXCEPT ![c] = "poll_queue"]
              /\ polled' = [polled EXCEPT ![c] = TRUE]
    /\ UNCHANGED << thread_pid, nReaders, listVars, hwVars, irqMasked, readerVars,
                    req, pkt, hciTempQueue, hci_timeout, result, listFault,
                    aside, nEvicted >>
    /\ exitBy' = [exitBy EXCEPT ![c] = IF hci_timeout[c] THEN -1 ELSE 0]

(* if(!HCI_Queue_Empty()) break; *)
PollQueue(c) ==
    /\ ~listFault
    /\ pc[c] = "poll_queue"
    /\ pc' = [pc EXCEPT ![c] = IF ~ble_list_is_empty(hciReadPktRxQueue)
                                THEN "dequeue" ELSE "poll_timer"]
    /\ UNCHANGED << thread_pid, nReaders, listVars, hwVars, irqMasked, readerVars,
                    req, pkt, hciTempQueue, hci_timeout, result, polled, listFault,
                    aside, nEvicted, exitBy >>

(* Disable_SPI_IRQ; ble_list_remove_head(&hciReadPktRxQueue, ...); then    *)
(* the switch on the event code; on the way to done, r->rlen becomes       *)
(* MIN(len, r->rlen) and Osal_MemCpy copies r->rlen bytes.                 *)
Dequeue(c) ==
    /\ ~listFault
    /\ pc[c] = "dequeue"
    /\ irqMasked' = TRUE
    /\ IF ble_list_is_empty(hciReadPktRxQueue)
         THEN /\ listFault' = TRUE
              /\ pc' = [pc EXCEPT ![c] = "fault"]
              /\ UNCHANGED << pkt, hciReadPktRxQueue >>
         ELSE /\ pkt' = [pkt EXCEPT ![c] = Head(hciReadPktRxQueue)]
              /\ hciReadPktRxQueue' = ble_list_rest_head(hciReadPktRxQueue)
              /\ pc' = [pc EXCEPT ![c] =
                          Classify(dataBuff[Head(hciReadPktRxQueue)], req[c])]
              /\ UNCHANGED listFault
    /\ req' = IF ~ble_list_is_empty(hciReadPktRxQueue)
                 /\ Classify(dataBuff[Head(hciReadPktRxQueue)], req[c]) = "done"
               THEN [req EXCEPT ![c].rlen =
                       MIN(ResponseLen(dataBuff[Head(hciReadPktRxQueue)]), @)]
               ELSE req
    /\ polled' = [polled EXCEPT ![c] = FALSE]
    /\ UNCHANGED << thread_pid, nReaders, hciReadPktPool, dataBuff, arrival,
                    hwVars, readerVars, hciTempQueue, hci_timeout, result,
                    aside, nEvicted >>
    /\ exitBy' = [exitBy EXCEPT ![c] =
           IF ~ble_list_is_empty(hciReadPktRxQueue)
              /\ Classify(dataBuff[Head(hciReadPktRxQueue)], req[c]) # "aside"
           THEN dataBuff[Head(hciReadPktRxQueue)].evt ELSE 0]

(* SetAside giving the packet up whenever the pool is empty, whatever the  *)
(* receive queue holds.                                                    *)
SetAside_PoolOnly(c) ==
    /\ ~listFault
    /\ pc[c] = "aside"
    /\ IF ble_list_is_empty(hciReadPktPool)
         THEN /\ hciReadPktPool' = ble_list_insert_tail(hciReadPktPool, pkt[c])
              /\ dataBuff' = [dataBuff EXCEPT ![pkt[c]] = NoData]
              /\ arrival' = Without(arrival, pkt[c])
              /\ UNCHANGED << hciTempQueue, aside >>
         ELSE /\ hciTempQueue' = [hciTempQueue EXCEPT
                                    ![c] = ble_list_insert_tail(@, pkt[c])]
              /\ aside' = [aside EXCEPT ![c] = Append(@, pkt[c])]
              /\ UNCHANGED << hciReadPktPool, dataBuff, arrival >>
    /\ pkt' = [pkt EXCEPT ![c] = 0]
    /\ rpc' = HCI_Isr(rpc)
    /\ irqMasked' = FALSE
    /\ pc' = [pc EXCEPT ![c] = "poll_timer"]
    /\ UNCHANGED << thread_pid, nReaders, hciReadPktRxQueue, hwVars, rpkt, req,
                    hci_timeout, result, polled, listFault, nEvicted, exitBy >>

(* The packet is not the answer: back to the pool if the pool and the      *)
(* receive queue are both empty, else to the tail of hciTempQueue; then    *)
(* HCI_Isr(), Enable_SPI_IRQ() and around the outer loop.                  *)
SetAside(c) ==
    /\ ~listFault
    /\ pc[c] = "aside"
    /\ IF ble_list_is_empty(hciReadPktPool) /\ ble_list_is_empty(hciReadPktRxQueue)
         THEN /\ hciReadPktPool' = ble_list_insert_tail(hciReadPktPool, pkt[c])
              /\ dataBuff' = [dataBuff EXCEPT ![pkt[c]] = NoData]
              /\ arrival' = Without(arrival, pkt[c])
              /\ UNCHANGED << hciTempQueue, aside >>
         ELSE /\ hciTempQueue' = [hciTempQueue EXCEPT
                                    ![c] = ble_list_insert_tail(@, pkt[c])]
              /\ aside' = [aside EXCEPT ![c] = Append(@, pkt[c])]
              /\ UNCHANGED << hciReadPktPool, dataBuff, arrival >>
    /\ pkt' = [pkt EXCEPT ![c] = 0]
    /\ rpc' = HCI_Isr(rpc)
    /\ irqMasked' = FALSE
    /\ pc' = [pc EXCEPT ![c] = "poll_timer"]
    /\ UNCHANGED << thread_pid, nReaders, hciReadPktRxQueue, hwVars, rpkt, req,
                    hci_timeout, result, polled, listFault, nEvicted, exitBy >>

(* Release without the re-insertion at failed: the packet is forgotten. *)
Release_FailedLeak(c) ==
    /\ ~listFault
    /\ pc[c] \in {"failed", "done"}
    /\ IF pkt[c] # 0 /\ pc[c] = "done"
         THEN /\ hciReadPktPool' = ble_list_insert_head(hciReadPktPool, pkt[c])
              /\ dataBuff' = [dataBuff EXCEPT ![pkt[c]] = NoData]
              /\ arrival' = Without(arrival, pkt[c])
         ELSE UNCHANGED << hciReadPktPool, dataBuff, arrival >>
    /\ pkt' = [pkt EXCEPT ![c] = 0]
    /\ result' = [result EXCEPT ![c] = IF pc[c] = "done" THEN 0 ELSE -1]
    /\ pc' = [pc EXCEPT ![c] = "move_list"]
    /\ UNCHANGED << thread_pid, nReaders, hciReadPktRxQueue, hwVars, irqMasked,
                    readerVars, req, hciTempQueue, hci_timeout, polled, listFault,
                    aside, nEvicted, exitBy >>

(* failed: / done: the packet last dequeued goes to the head of the pool   *)
(* (at failed: only if hciReadPacket is not NULL).                         *)
Release(c) ==
    /\ ~listFault
    /\ pc[c] \in {"failed", "done"}
    /\ IF pkt[c] # 0
         THEN /\ hciReadPktPool' = ble_list_insert_head(hciReadPktPool, pkt[c])
              /\ dataBuff' = [dataBuff EXCEPT ![pkt[c]] = NoData]
              /\ arrival' = Without(arrival, pkt[c])
         ELSE UNCHANGED << hciReadPktPool, dataBuff, arrival >>
    /\ pkt' = [pkt EXCEPT ![c] = 0]
    /\ result' = [result EXCEPT ![c] = IF pc[c] = "done" THEN 0 ELSE -1]
    /\ pc' = [pc EXCEPT ![c] = "move_list"]
    /\ UNCHANGED << thread_pid, nReaders, hciReadPktRxQueue, hwVars, irqMasked,
                    readerVars, req, hciTempQueue, hci_timeout, polled, listFault,
                    aside, nEvicted, exitBy >>

(* move_list(&hciReadPktRxQueue, &hciTempQueue), one packet a step *)
MoveList(c) ==
    /\ ~listFault
    /\ pc[c] = "move_list"
    /\ ~ble_list_is_empty(hciTempQueue[c])
    /\ hciReadPktRxQueue' = move_list(hciReadPktRxQueue, hciTempQueue[c])[1]
    /\ hciTempQueue' = [hciTempQueue EXCEPT
                          ![c] = move_list(hciReadPktRxQueue, hciTempQueue[c])[2]]
    /\ UNCHANGED << thread_pid, nReaders, hciReadPktPool, dataBuff, arrival,
                    hwVars, irqMasked, readerVars, pc, req, pkt, hci_timeout,
                    result, polled, listFault,
                    aside, nEvicted, exitBy >>

(* Enable_SPI_IRQ(); return -1 / return 0 *)
Return(c) ==
    /\ ~listFault
    /\ pc[c] = "move_list"
    /\ ble_list_is_empty(hciTempQueue[c])
    /\ irqMasked' = FALSE
    /\ pc' = [pc EXCEPT ![c] = "idle"]
    /\ req' = [req EXCEPT ![c] = NoReq]
    /\ hci_timeout' = [hci_timeout EXCEPT ![c] = FALSE]
    /\ UNCHANGED << thread_pid, nReaders, listVars, hwVars, readerVars, pkt,
                    hciTempQueue, result, polled, listFault,
                    nEvicted >>
    /\ aside' = [aside EXCEPT ![c] = << >>]
    /\ exitBy' = [exitBy EXCEPT ![c] = 0]

-----------------------------------------------------------------------------
Caller(c) ==
    \/ HCI_Init(c)
    \/ HCI_Process(c) \/ ProcessRemove(c) \/ ProcessCallback(c)
    \/ ProcessRelease(c) \/ ProcessIsr(c)
    \/ \E r \in Requests : SendReq(c, r)
    \/ FreeEventTest(c) \/ FreeEventPut(c)
    \/ SendCmd(c) \/ TimerExpire(c) \/ PollTimer(c) \/ PollQueue(c)
    \/ Dequeue(c) \/ SetAside(c)
    \/ Release(c) \/ MoveList(c) \/ Return(c)

Next ==
    \/ \E p \in DevicePackets : HwArrive(p)
    \/ HwIsr
    \/ Reader
    \/ \E c \in Callers : Caller(c)

Spec == Init /\ [][Next]_vars

(* The same program with a synchronous request for each kind of expected   *)
(* event (r->event is EVT_CMD_STATUS, EVT_CMD_COMPLETE or an LE meta       *)
(* sub-event) and a device that sends the events these requests tell       *)
(* apart; HCI_Process is not called.                                       *)
EventPackets == { PktHwError, PktCmdStatusOk }
EventRequests == [event : {EVT_CMD_STATUS, EVT_CMD_COMPLETE, SubEvent},
                  async : {FALSE}, rlen : {2}, cap : {2}]

NextEvents ==
    \/ \E p \in EventPackets : HwArrive(p)
    \/ HwIsr
    \/ Reader
    \/ \E c \in Callers :
          \/ HCI_Init(c)
          \/ \E r \in EventRequests : SendReq(c, r)
          \/ FreeEventTest(c) \/ FreeEventPut(c)
          \/ SendCmd(c) \/ TimerExpire(c) \/ PollTimer(c) \/ PollQueue(c)
          \/ Dequeue(c) \/ SetAside(c)
          \/ Release(c) \/ MoveList(c) \/ Return(c)

SpecEvents == Init /\ [][NextEvents]_vars

(* The same program with a device that answers a command with Command      *)
(* Status events, of zero or non-zero status, and with the Command         *)
(* Complete event, and synchronous requests that await Command Complete;   *)
(* HCI_Process is not called.                                              *)
StatusPackets == { PktCmdStatusOk, PktCmdStatusErr, PktCmdComplete }
StatusRequests == [event : {EVT_CMD_COMPLETE}, async : {FALSE},
                   rlen : {2}, cap : {2}]

NextStatus ==
    \/ \E p \in StatusPackets : HwArrive(p)
    \/ HwIsr
    \/ Reader
    \/ \E c \in Callers :
          \/ HCI_Init(c)
          \/ \E r \in StatusRequests : SendReq(c, r)
          \/ FreeEventTest(c) \/ FreeEventPut(c)
          \/ SendCmd(c) \/ TimerExpire(c) \/ PollTimer(c) \/ PollQueue(c)
          \/ Dequeue(c) \/ SetAside(c)
          \/ Release(c) \/ MoveList(c) \/ Return(c)

SpecStatus == Init /\ [][NextStatus]_vars

(* The copy of the response, from the state where the reader has queued   *)
(* one packet and a synchronous request has written its command and set    *)
(* its timer: every packet of CopyPackets against every expected event     *)
(* and every capacity of the caller's buffer up to MaxCap.                 *)
MaxCap == 5

CopyPackets == { PktCmdStatusOk, PktCmdStatusErr, PktCmdComplete,
                 PktCmdCompleteLong, PktCmdCompleteShort,
                 PktMeta, PktMetaOther, PktMetaEmpty }
CopyRequests ==
    { r \in [event : {EVT_CMD_STATUS, EVT_CMD_COMPLETE, SubEvent},
              async : {FALSE}, rlen : 0..MaxCap, cap : 0..MaxCap] :
        r.rlen = r.cap }

InitCopy ==
    /\ thread_pid = 1
    /\ nReaders = 1
    /\ hciReadPktPool = << 2, 3, 4, 5 >>
    /\ hciReadPktRxQueue = << 1 >>
    /\ \E p \in CopyPackets :
          dataBuff = [b \in Buffers |-> IF b = 1 THEN p ELSE NoData]
    /\ hwq = << >>
    /\ nArrived = 1
    /\ irqPending = FALSE
    /\ irqMasked = FALSE
    /\ rpc = "wait"
    /\ rpkt = 0
    /\ pc = [c \in Contexts |-> "poll_timer"]
    /\ \E r \in CopyRequests : req = [c \in Contexts |-> r]
    /\ pkt = [c \in Contexts |-> 0]
    /\ hciTempQueue = [c \in Contexts |-> << >>]
    /\ hci_timeout = [c \in Contexts |-> FALSE]
    /\ result = [c \in Contexts |-> 1]
    /\ polled = [c \in Contexts |-> FALSE]
    /\ listFault = FALSE
    /\ aside = [c \in Contexts |-> << >>]
    /\ nEvicted = [c \in Contexts |-> 0]
    /\ exitBy = [c \in Contexts |-> 0]
    /\ arrival = << 1 >>

NextCopy ==
    \E c \in Callers :
        \/ TimerExpire(c) \/ PollTimer(c) \/ PollQueue(c)
        \/ Dequeue(c) \/ SetAside(c)
        \/ Release(c) \/ MoveList(c) \/ Return(c)

SpecCopy == InitCopy /\ [][NextCopy]_vars

(* The same program with a device that never stops sending events no      *)
(* request matches: a packet becomes readable whenever the device has      *)
(* room, without a count. The caller calls HCI_Init once and then only     *)
(* hci_send_req; its thread keeps running, so each step of hci_send_req    *)
(* that can be taken is taken.                                             *)
LivePackets == { PktMetaOther }
LiveRequests == [event : {EVT_CMD_COMPLETE}, async : {FALSE},
                 rlen : {2}, cap : {2}]

HwRefill(p) ==
    /\ ~listFault
    /\ Len(hwq) < MaxHw
    /\ hwq' = Append(hwq, p)
    /\ irqPending' = (irqPending \/ hwq = << >>)
    /\ UNCHANGED << thread_pid, nReaders, listVars, nArrived, irqMasked,
                    readerVars, callerVars, listFault >>

HCI_InitFirst(c) ==
    /\ thread_pid = -1
    /\ HCI_Init(c)

NextLive ==
    \/ \E p \in LivePackets : HwRefill(p)
    \/ HwIsr
    \/ Reader
    \/ \E c \in Callers :
          \/ HCI_InitFirst(c)
          \/ \E r \in LiveRequests : SendReq(c, r)
          \/ FreeEventTest(c) \/ FreeEventPut(c)
          \/ SendCmd(c) \/ TimerExpire(c) \/ PollTimer(c) \/ PollQueue(c)
          \/ Dequeue(c) \/ SetAside(c)
          \/ Release(c) \/ MoveList(c) \/ Return(c)

CallerRuns ==
    \A c \in Callers :
        /\ WF_vars(PollTimer(c)) /\ WF_vars(PollQueue(c))
        /\ WF_vars(Dequeue(c)) /\ WF_vars(SetAside(c))
        /\ WF_vars(Release(c)) /\ WF_vars(MoveList(c))
        /\ WF_vars(Return(c))

SpecLive == Init /\ [][NextLive]_vars /\ CallerRuns

(* The event drain beside the reader when buffers are scarce: the reader   *)
(* has queued a packet in every buffer, a further packet is readable, its  *)
(* interrupt has been served and the reader, still in its loop, has just   *)
(* found BlueNRG_DataPresent true. The device raises no further interrupt. *)
(* The reader thread and a caller inside HCI_Process keep running; nothing *)
(* obliges the caller to call HCI_Process again.                           *)
DrainPackets == { PktMetaOther, PktCmdComplete }

InitDrain ==
    /\ thread_pid = 1
    /\ nReaders = 1
    /\ hciReadPktPool = << >>
    /\ hciReadPktRxQueue = << 1, 2, 3, 4, 5 >>
    /\ dataBuff \in [Buffers -> DrainPackets]
    /\ \E p \in DrainPackets : hwq = << p >>
    /\ nArrived = HCI_READ_PACKET_NUM_MAX + 1
    /\ irqPending = FALSE
    /\ irqMasked = FALSE
    /\ rpc = "acquire"
    /\ rpkt = 0
    /\ pc = [c \in Contexts |-> "idle"]
    /\ req = [c \in Contexts |-> NoReq]
    /\ pkt = [c \in Contexts |-> 0]
    /\ hciTempQueue = [c \in Contexts |-> << >>]
    /\ hci_timeout = [c \in Contexts |-> FALSE]
    /\ result = [c \in Contexts |-> 1]
    /\ polled = [c \in Contexts |-> FALSE]
    /\ listFault = FALSE
    /\ aside = [c \in Contexts |-> << >>]
    /\ nEvicted = [c \in Contexts |-> 0]
    /\ exitBy = [c \in Contexts |-> 0]
    /\ arrival = << 1, 2, 3, 4, 5 >>

NextDrain ==
    \/ ReaderWait \/ ReaderDataPresent \/ ReaderAcquire \/ ReaderRead
    \/ \E c \in Callers :
          \/ HCI_Process(c) \/ ProcessRemove(c) \/ ProcessCallback(c)
          \/ ProcessRelease(c) \/ ProcessIsr(c)

DrainRuns ==
    /\ WF_vars(ReaderWait) /\ WF_vars(ReaderDataPresent)
    /\ WF_vars(ReaderAcquire) /\ WF_vars(ReaderRead)
    /\ \A c \in Callers :
          /\ WF_vars(ProcessRemove(c)) /\ WF_vars(ProcessCallback(c))
          /\ WF_vars(ProcessRelease(c)) /\ WF_vars(ProcessIsr(c))

SpecDrain == InitDrain /\ [][NextDrain]_vars /\ DrainRuns

(* Two application threads: each may call hci_send_req and HCI_Process at  *)
(* any time, beside the reader and the device, which sends up to           *)
(* MaxTwoArrivals packets. HCI_Init is called once.                        *)
MaxTwoArrivals == 4
TwoPackets == { PktMetaOther }
TwoRequests == [event : {EVT_CMD_COMPLETE}, async : {FALSE},
                rlen : {2}, cap : {2}]

HwArriveTwo(p) ==
    /\ nArrived < MaxTwoArrivals
    /\ HwArrive(p)

NextTwo ==
    \/ \E p \in TwoPackets : HwArriveTwo(p)
    \/ HwIsr
    \/ Reader
    \/ \E c \in Contexts :
          \/ HCI_InitFirst(c)
          \/ \E r \in TwoRequests : SendReq(c, r)
          \/ FreeEventTest(c) \/ FreeEventPut(c)
          \/ SendCmd(c) \/ TimerExpire(c) \/ PollTimer(c) \/ PollQueue(c)
          \/ Dequeue(c) \/ SetAside(c)
          \/ Release(c) \/ MoveList(c) \/ Return(c)
          \/ HCI_Process(c) \/ ProcessRemove(c) \/ ProcessCallback(c)
          \/ ProcessRelease(c) \/ ProcessIsr(c)

SpecTwo == Init /\ [][NextTwo]_vars

(* One application thread beside the reader and a device that never stops  *)
(* sending: the thread calls HCI_Process and hci_send_req, and the event   *)
(* callback HCI_Event_CB may call hci_send_req itself while HCI_Process    *)
(* waits for it with its packet in hand. The nested call runs in context   *)
(* "other", which moves only while "main" is in the callback. Requests are *)
(* asynchronous: hci_send_req returns after hci_send_cmd. The thread keeps *)
(* running inside free_event_list; nothing is assumed of the reader.       *)
NestedPackets == { PktMetaOther }
NestedRequests == [event : {EVT_CMD_COMPLETE}, async : {TRUE},
                   rlen : {2}, cap : {2}]

CallbackSendReq(r) ==
    /\ pc["main"] = "hp_cb"
    /\ SendReq("other", r)

CallbackReturn ==
    /\ pc["other"] = "idle"
    /\ ProcessCallback("main")

NextNested ==
    \/ \E p \in NestedPackets : HwRefill(p)
    \/ HwIsr
    \/ Reader
    \/ HCI_InitFirst("main")
    \/ \E r \in NestedRequests : SendReq("main", r)
    \/ HCI_Process("main") \/ ProcessRemove("main") \/ CallbackReturn
    \/ ProcessRelease("main") \/ ProcessIsr("main")
    \/ \E r \in NestedRequests : CallbackSendReq(r)
    \/ \E c \in Contexts :
          FreeEventTest(c) \/ FreeEventPut(c) \/ SendCmd(c)

NestedRuns ==
    \A c \in Contexts :
        WF_vars(FreeEventTest(c)) /\ WF_vars(FreeEventPut(c))

SpecNested == Init /\ [][NextNested]_vars /\ NestedRuns

-----------------------------------------------------------------------------
(* Who owns a buffer *)

Occ(list, b) == Cardinality({ i \in 1..Len(list) : list[i] = b })

(* The number of places buffer b is in: the pool, the receive queue, a     *)
(* temporary queue, or a local variable of the reader or of a caller.      *)
Owners(b) ==
    Occ(hciReadPktPool, b) + Occ(hciReadPktRxQueue, b)
    + Cardinality({ ci \in Contexts \X (1..HCI_READ_PACKET_NUM_MAX) :
                      /\ ci[2] <= Len(hciTempQueue[ci[1]])
                      /\ hciTempQueue[ci[1]][ci[2]] = b })
    + Cardinality({ c \in Contexts : pkt[c] = b })
    + (IF rpkt = b THEN 1 ELSE 0)

InRequest(c) == pc[c] \in {"poll_timer", "poll_queue", "dequeue", "aside",
                            "failed", "done", "move_list"}

-----------------------------------------------------------------------------
(* C1: once HCI_Init has run, every one of the five packet buffers is in   *)
(* exactly one place: the pool, the receive queue, a request's temporary   *)
(* queue, or a local variable of the reader, of a request or of the drain. *)
C1_BufferPartition ==
    Initialized => \A b \in Buffers : Owners(b) = 1

(* C4: a second HCI_Init creates no second reader thread and leaves the    *)
(* pool and the receive queue as they were.                                *)
C4_InitIdempotent ==
    [][\A c \in Callers :
          (Initialized /\ HCI_Init(c)) =>
              /\ nReaders' = 1
              /\ hciReadPktPool' = hciReadPktPool
              /\ hciReadPktRxQueue' = hciReadPktRxQueue]_vars

(* C5: whenever a thread is about to read or change the pool or the        *)
(* receive queue (the reader in its drain loop, the drain, the eviction,   *)
(* hci_send_req in its poll and on its exit paths), the SPI IRQ is         *)
(* disabled.  The two steps that begin with Disable_SPI_IRQ themselves     *)
(* ("dequeue", "hp_put") are masked by construction.                       *)
C5_MaskedAccess ==
    /\ rpc \in {"acquire", "read"} => irqMasked
    /\ \A c \in Callers :
          pc[c] \in {"hp_remove", "fel_test", "fel_put", "poll_queue", "aside",
                     "failed", "done", "move_list"} => irqMasked

(* C6: no notification is lost: the reader is never blocked in cond_wait,  *)
(* with no interrupt pending and no caller at work, while a valid packet   *)
(* is readable and the pool has a free buffer, after it has already been   *)
(* woken and has queued a packet.                                          *)
C6_NoLostWakeup ==
    ~ /\ rpc = "wait"
      /\ ~irqPending
      /\ ~irqMasked
      /\ \A c \in Callers : pc[c] = "idle"
      /\ hwq # << >>
      /\ HCI_verify(Head(hwq)) = 0
      /\ ~ble_list_is_empty(hciReadPktPool)
      /\ ~ble_list_is_empty(hciReadPktRxQueue)

(* C3: when hci_send_req is about to return, the packets it put in        *)
(* hciTempQueue are at the head of the receive queue in the order in which *)
(* it dequeued them, and the receive queue as a whole is in order of       *)
(* arrival, so they are ahead of every packet queued after them.           *)
C3_SetAsideRestored ==
    \A c \in Callers :
        (pc[c] = "move_list" /\ ble_list_is_empty(hciTempQueue[c])) =>
            /\ Len(aside[c]) <= Len(hciReadPktRxQueue)
            /\ SubSeq(hciReadPktRxQueue, 1, Len(aside[c])) = aside[c]
            /\ hciReadPktRxQueue = arrival

(* Two packets were set aside and spliced back ahead of a later one. *)
C3_Witness ==
    \E c \in Callers :
        /\ pc[c] = "move_list"
        /\ ble_list_is_empty(hciTempQueue[c])
        /\ Len(aside[c]) >= 2
        /\ Len(hciReadPktRxQueue) > Len(aside[c])

(* C7 as stated: the request goes to failed from its deadline check only   *)
(* while the receive queue has no entry.                                   *)
C7_TimeoutOnlyIfEmpty ==
    [][\A c \in Callers :
          (pc[c] = "poll_timer" /\ pc'[c] = "failed") =>
              ble_list_is_empty(hciReadPktRxQueue)]_vars

(* C7 as amended: the deadline check alone decides the timeout, whether or *)
(* not the receive queue holds an entry; a packet is only dequeued after a *)
(* deadline check that found the timer running and a queue check that      *)
(* found an entry.                                                         *)
C7_TimeoutIffExpired ==
    [][\A c \in Callers :
          /\ (pc[c] = "poll_timer" /\ pc'[c] # "poll_timer") =>
                 /\ (pc'[c] = "failed") <=> hci_timeout[c]
                 /\ (pc'[c] = "poll_queue") <=> ~hci_timeout[c]
          /\ (pc[c] # "dequeue" /\ pc'[c] = "dequeue") =>
                 /\ pc[c] = "poll_queue"
                 /\ polled[c]
                 /\ ~ble_list_is_empty(hciReadPktRxQueue)]_vars

(* The request has timed out while the receive queue holds a packet. *)
C7_Witness ==
    \E c \in Callers :
        /\ pc[c] = "failed"
        /\ exitBy[c] = -1
        /\ ~ble_list_is_empty(hciReadPktRxQueue)

C9_ExitClean ==
    \A c \in Callers :
        /\ pc[c] = "move_list" => pkt[c] = 0
        /\ (pc[c] = "move_list" /\ ble_list_is_empty(hciTempQueue[c])) =>
              /\ Range(aside[c]) \subseteq Range(hciReadPktRxQueue)
              /\ \A b \in Buffers :
                    b \in Range(hciReadPktPool) \cup Range(hciReadPktRxQueue)
                          \cup {rpkt}

(* The request timed out after setting a packet aside and is about to      *)
(* return.                                                                 *)
C9_Witness ==
    \E c \in Callers :
        /\ pc[c] = "move_list"
        /\ ble_list_is_empty(hciTempQueue[c])
        /\ exitBy[c] = -1
        /\ result[c] = -1
        /\ aside[c] # << >>

(* C10: a Hardware Error event dequeued by a synchronous request sends it  *)
(* to failed at once, whatever event the request expects and whatever it   *)
(* set aside before; the request then returns -1, and the event is never   *)
(* in a temporary queue or put back in the receive queue by the request.   *)
C10_HwErrorFails ==
    \A c \in Callers :
        /\ \A i \in 1..Len(hciTempQueue[c]) :
              dataBuff[hciTempQueue[c][i]].evt # EVT_HARDWARE_ERROR
        /\ \A i \in 1..Len(aside[c]) :
              Linked(aside[c][i]) =>
                  dataBuff[aside[c][i]].evt # EVT_HARDWARE_ERROR
        /\ (InRequest(c) /\ pkt[c] # 0
               /\ dataBuff[pkt[c]].evt = EVT_HARDWARE_ERROR) =>
              pc[c] = "failed"
        /\ (pc[c] = "move_list" /\ exitBy[c] = EVT_HARDWARE_ERROR) =>
              result[c] = -1

(* A request awaiting an LE meta sub-event has set a packet aside and then *)
(* dequeued a Hardware Error event.                                        *)
C10_Witness ==
    \E c \in Callers :
        /\ pc[c] = "failed"
        /\ req[c].event = SubEvent
        /\ aside[c] # << >>
        /\ pkt[c] # 0
        /\ dataBuff[pkt[c]].evt = EVT_HARDWARE_ERROR

(* C2: a synchronous hci_send_req whose timer has expired returns, with    *)
(* whatever result, however the device keeps refilling the receive queue   *)
(* with events the request sets aside.                                     *)
C2_ExpiredRequestReturns ==
    \A c \in Callers :
        (InRequest(c) /\ hci_timeout[c]) ~> (pc[c] = "idle")

(* The timer has expired while the request is polling, the receive queue   *)
(* holds a packet and an earlier one was set aside.                        *)
C2_Witness ==
    \E c \in Callers :
        /\ pc[c] = "poll_timer"
        /\ hci_timeout[c]
        /\ ~ble_list_is_empty(hciReadPktRxQueue)
        /\ aside[c] # << >>

(* C11: a synchronous request that awaits another event than Command       *)
(* Status and dequeues a Command Status event for its opcode goes to       *)
(* failed, and returns -1, if the status is not zero; if the status is     *)
(* zero it sets the event aside and goes back to the poll without having   *)
(* returned.                                                               *)
C11_StatusNotAwaited ==
    [][\A c \in Callers :
          /\ (/\ pc[c] = "dequeue" /\ pc'[c] # "dequeue"
              /\ ~ble_list_is_empty(hciReadPktRxQueue)
              /\ dataBuff[Head(hciReadPktRxQueue)].evt = EVT_CMD_STATUS
              /\ dataBuff[Head(hciReadPktRxQueue)].opcode = ReqOpcode
              /\ req[c].event # EVT_CMD_STATUS) =>
                 IF dataBuff[Head(hciReadPktRxQueue)].status # 0
                   THEN pc'[c] = "failed"
                   ELSE pc'[c] = "aside"
          /\ (pc[c] = "failed" /\ pc'[c] # "failed") =>
                 (pc'[c] = "move_list" /\ result'[c] = -1)
          /\ (pc[c] = "aside" /\ pc'[c] # "aside") =>
                 /\ pc'[c] = "poll_timer"
                 /\ result'[c] = 1
                 /\ pkt[c] \in Range(hciTempQueue'[c])
                        \cup Range(hciReadPktPool')]_vars

(* A request awaiting Command Complete has set a Command Status event of   *)
(* status zero aside and then dequeued one of non-zero status.             *)
C11_Witness ==
    \E c \in Callers :
        /\ pc[c] = "failed"
        /\ req[c].event = EVT_CMD_COMPLETE
        /\ pkt[c] # 0
        /\ dataBuff[pkt[c]] = PktCmdStatusErr
        /\ \E i \in 1..Len(hciTempQueue[c]) :
              dataBuff[hciTempQueue[c][i]] = PktCmdStatusOk

(* C12: when a synchronous request has found its response, the length it   *)
(* reports in r->rlen is the smaller of the caller's capacity and the      *)
(* payload the packet has (its parameters for Command Status, those after  *)
(* the fixed header for Command Complete, those after the sub-event byte   *)
(* for an LE meta event), and that many bytes are copied.                  *)
C12_LengthIsMin ==
    \A c \in Callers :
        pc[c] = "done" =>
            LET p == dataBuff[pkt[c]]
                hdr == CASE p.evt = EVT_CMD_COMPLETE -> EVT_CMD_COMPLETE_SIZE
                         [] p.evt = EVT_LE_META_EVENT -> 1
                         [] OTHER -> 0
                available == IF p.plen > hdr THEN p.plen - hdr ELSE 0
                least == IF req[c].cap < available THEN req[c].cap
                                                   ELSE available
            IN  /\ req[c].rlen = least
                /\ CopySize(req[c].rlen) = [hi |-> 0, lo |-> least]

(* C20: when a synchronous request has found its response, the number of   *)
(* bytes it copies to the caller's buffer is at least 0 and at most the    *)
(* capacity the caller gave.                                               *)
C20_CopyWithinCapacity ==
    \A c \in Callers :
        pc[c] = "done" =>
            /\ 0 <= req[c].rlen
            /\ CopySize(req[c].rlen).hi = 0
            /\ CopySize(req[c].rlen).lo <= req[c].cap


(* C13: every packet in the receive queue has the event framing marker and *)
(* a declared parameter length equal to the bytes read less the type byte  *)
(* and the event header; a read of a packet that fails either test puts    *)
(* the buffer back at the head of the pool and leaves the receive queue as *)
(* it was, so a malformed packet met with an empty queue leaves it empty.  *)
C13_OnlyVerifiedQueued ==
    [][/\ \A b \in Range(hciReadPktRxQueue') :
              /\ dataBuff'[b].type = HCI_EVENT_PKT
              /\ dataBuff'[b].plen = dataBuff'[b].dlen - (1 + HCI_EVENT_HDR_SIZE)
       /\ (/\ rpc = "read" /\ rpc' # "read" /\ hwq' # hwq
           /\ \/ Head(hwq).type # HCI_EVENT_PKT
              \/ Head(hwq).plen # Head(hwq).dlen - (1 + HCI_EVENT_HDR_SIZE)) =>
              /\ hciReadPktRxQueue' = hciReadPktRxQueue
              /\ hciReadPktPool' = <<rpkt>> \o hciReadPktPool
              /\ dataBuff'[rpkt] = NoData]_vars

(* Two packets were taken from the transport, neither is queued and the    *)
(* pool holds all the buffers in their initial order.                      *)
C13_Witness ==
    /\ nArrived = 2 /\ hwq = <<>> /\ rpc = "check" /\ ~listFault
    /\ hciReadPktRxQueue = <<>>
    /\ hciReadPktPool = <<1, 2, 3, 4, 5>>
    /\ \A c \in Callers : pc[c] = "idle" /\ result[c] = 1


(* C14: HCI_Process takes the head of the receive queue, which is the      *)
(* oldest packet queued, and hands it to the event callback; while the     *)
(* callback runs the interrupt line is unmasked, the buffer is in no list, *)
(* is not the reader's and keeps its contents; the buffer goes to the tail *)
(* of the pool only in the step after the callback, and is then gone from  *)
(* the receive queue, so no packet is delivered twice.                     *)
C14_DrainFifoOnce ==
    [][\A c \in Callers :
          /\ (pc[c] = "hp_remove" /\ pc'[c] # "hp_remove") =>
                 /\ ~ble_list_is_empty(hciReadPktRxQueue)
                 /\ pc'[c] = "hp_cb"
                 /\ pkt'[c] = Head(hciReadPktRxQueue)
                 /\ pkt'[c] = Head(SelectSeq(arrival,
                                 LAMBDA b : b \in Range(hciReadPktRxQueue)))
                 /\ hciReadPktRxQueue' = Tail(hciReadPktRxQueue)
                 /\ hciReadPktPool' = hciReadPktPool
          /\ pc'[c] = "hp_cb" =>
                 /\ ~irqMasked'
                 /\ pkt'[c] \in Buffers
                 /\ pkt'[c] \notin Range(hciReadPktPool')
                                  \cup Range(hciReadPktRxQueue')
                                  \cup Range(hciTempQueue'[c]) \cup {rpkt'}
                 /\ HCI_verify(dataBuff'[pkt'[c]]) = 0
          /\ pc[c] = "hp_cb" =>
                 /\ pc'[c] \in {"hp_cb", "hp_put"}
                 /\ pkt'[c] = pkt[c]
                 /\ dataBuff'[pkt[c]] = dataBuff[pkt[c]]
          /\ (/\ pc[c] \in {"hp_remove", "hp_cb", "hp_put", "hp_isr"}
              /\ pc'[c] # pc[c]
              /\ hciReadPktPool' # hciReadPktPool) =>
                 /\ pc[c] = "hp_put"
                 /\ hciReadPktPool' = Append(hciReadPktPool, pkt[c])
                 /\ pkt[c] \notin Range(hciReadPktRxQueue')
                 /\ pkt[c] \notin Range(arrival')]_vars

(* The second packet of a drain is with the callback: the first one's      *)
(* buffer is back at the tail of the pool.                                 *)
C14_Witness ==
    \E c \in Callers :
        /\ pc[c] = "hp_cb" /\ pkt[c] = 2 /\ ~irqMasked /\ ~listFault
        /\ ~ble_list_is_empty(hciReadPktPool)
        /\ hciReadPktPool[Len(hciReadPktPool)] = 1


(* C16: a read that returns zero bytes while the device has data pending   *)
(* puts the buffer back at the head of the pool and ends the reader's      *)
(* loop: the reader goes on to mutex_unlock and the next cond_wait, and    *)
(* does not come back to the loop test of the same cycle.                  *)
C16_ZeroReadEndsCycle ==
    [][(/\ rpc = "read" /\ rpc' # "read"
        /\ hwq # << >> /\ hwq' = hwq) =>
           /\ hciReadPktPool' = << rpkt >> \o hciReadPktPool
           /\ rpc' = "lock"]_vars


(* C15: when HCI_Process has emptied the receive queue and put every       *)
(* buffer back in the pool while the reader, having left its loop for want *)
(* of a buffer, is stopped with a packet still readable, the HCI_Isr call  *)
(* that ends HCI_Process gets the reader to take a buffer and read, with   *)
(* no further interrupt from the device.                                   *)
C15_DrainWakesReader ==
    (\E c \in Callers :
        /\ pc[c] = "hp_isr"
        /\ ble_list_is_empty(hciReadPktRxQueue)
        /\ Len(hciReadPktPool) = HCI_READ_PACKET_NUM_MAX
        /\ rpc \in {"lock", "wait"}
        /\ hwq # << >> /\ ~irqPending)
      ~> (rpc = "read" \/ hwq = << >>)


(* C17: a packet hci_send_req has dequeued and found not to be the answer  *)
(* goes to the tail of hciTempQueue with its contents kept, unless the     *)
(* pool and the receive queue are both empty at that step: then it goes to *)
(* the pool and is no longer a live packet. A packet in hciTempQueue stays *)
(* there unchanged until it is moved back to the receive queue.            *)
C17_SetAsideOrDrop ==
    [][\A c \in Callers :
          /\ (pc[c] = "aside" /\ pc'[c] # "aside") =>
                IF /\ ble_list_is_empty(hciReadPktPool)
                   /\ ble_list_is_empty(hciReadPktRxQueue)
                  THEN /\ hciReadPktPool' = << pkt[c] >>
                       /\ hciTempQueue'[c] = hciTempQueue[c]
                       /\ pkt[c] \notin Range(arrival')
                  ELSE /\ hciTempQueue'[c] = Append(hciTempQueue[c], pkt[c])
                       /\ hciReadPktPool' = hciReadPktPool
                       /\ pkt[c] \in Range(arrival')
                       /\ dataBuff'[pkt[c]] = dataBuff[pkt[c]]
                       /\ dataBuff[pkt[c]] # NoData
          /\ \A b \in Range(hciTempQueue[c]) :
                /\ b \in Range(hciTempQueue'[c]) \cup Range(hciReadPktRxQueue')
                /\ dataBuff'[b] = dataBuff[b]
                /\ b \in Range(arrival')]_vars

(* An irrelevant packet has been dequeued while earlier ones are in        *)
(* hciTempQueue and neither the pool nor the receive queue holds a buffer. *)
C17_Witness ==
    \E c \in Callers :
        /\ pc[c] = "aside" /\ pkt[c] \in Buffers /\ ~listFault
        /\ ble_list_is_empty(hciReadPktPool)
        /\ ble_list_is_empty(hciReadPktRxQueue)
        /\ ~ble_list_is_empty(hciTempQueue[c])


(* C18: with two threads calling hci_send_req and HCI_Process, every       *)
(* removal of the head of the receive queue (the dequeue of hci_send_req,  *)
(* the one of HCI_Process, the eviction of free_event_list) finds the      *)
(* queue non-empty.                                                        *)
C18_RemoveHeadNonEmpty ==
    [][\A c \in Contexts :
          (/\ pc'[c] # pc[c]
           /\ \/ pc[c] \in {"dequeue", "hp_remove"}
              \/ pc[c] = "fel_test" /\ PoolLow) =>
              ~ble_list_is_empty(hciReadPktRxQueue)]_vars


====
